---- MODULE Spec2Model ----
(***************************************************************************)
(* netstat-cat, src-tauri: the connection inventory built by               *)
(* netstat::fetch_process_info_list from the operating system's socket     *)
(* table (netstat2::get_sockets_info) and process table                    *)
(* (sysinfo::System::refresh_processes).                                   *)
(*                                                                         *)
(* The operating system is the environment: a socket table and a process   *)
(* table that change under the program.  Every invocation of the tauri     *)
(* command get_process_info_list is a caller with its own locals           *)
(* (sockets, sys, pid_name_map, results) and its own position in the       *)
(* function.                                                               *)
(***************************************************************************)
EXTENDS Integers, Sequences, FiniteSets, TLC

VARIABLES
    osSockets,      \* the OS socket table, a sequence of SocketInfo
    osProcs,        \* the OS process table: pid -> process name (an OsStr)
    pc,             \* per caller: where it is in fetch_process_info_list
    sockets,        \* per caller: `sockets`, what get_sockets_info returned
    sys,            \* per caller: `sys`, the process snapshot it refreshed
    pid_name_map,   \* per caller: `pid_name_map`
    results,        \* per caller: `results`
    pos,            \* per caller: position of `for socket in sockets`
    ret,            \* per caller: what the command returned
    prev            \* per caller: history of its previous invocation

vars == <<osSockets, osProcs, pc, sockets, sys, pid_name_map, results, pos, ret, prev>>

(***************************************************************************)
(* Bounds of the model.                                                    *)
(***************************************************************************)
\* the most sockets the OS table holds
MaxSockets == 2
\* the most owners a socket descriptor lists in associated_pids
MaxPids == 2

(***************************************************************************)
(* Values: Option, Result, IpAddr, OsStr.                                  *)
(***************************************************************************)
None == <<>>
Some(x) == <<x>>

Ok(v) == [tag |-> "Ok", val |-> v]
Err(m) == [tag |-> "Err", val |-> m]
NotReturned == [tag |-> "None", val |-> <<>>]

V4(a, b, c, d) == [fam |-> "V4", parts |-> <<a, b, c, d>>]
V6(s) == [fam |-> "V6", parts |-> s]

Digits == <<"0", "1", "2", "3", "4", "5", "6", "7", "8", "9", "a", "b", "c", "d", "e", "f">>

RECURSIVE Dec(_)
Dec(n) == IF n < 10 THEN Digits[n + 1] ELSE Dec(n \div 10) \o Digits[(n % 10) + 1]

RECURSIVE Hex(_)
Hex(n) == IF n < 16 THEN Digits[n + 1] ELSE Hex(n \div 16) \o Digits[(n % 16) + 1]

\* Display for Ipv4Addr: the four octets in decimal, joined by dots
Ipv4ToString(o) == Dec(o[1]) \o "." \o Dec(o[2]) \o "." \o Dec(o[3]) \o "." \o Dec(o[4])

\* fmt_subslice of Display for Ipv6Addr: lower-case hex groups joined by colons
RECURSIVE FmtSubslice(_)
FmtSubslice(chunk) ==
    IF Len(chunk) = 0 THEN ""
    ELSE IF Len(chunk) = 1 THEN Hex(chunk[1])
    ELSE Hex(chunk[1]) \o ":" \o FmtSubslice(Tail(chunk))

\* the longest run of zero segments, the first one among equals
RECURSIVE LongestZeroSpan(_, _, _, _)
LongestZeroSpan(seg, i, current, longest) ==
    IF i > Len(seg) THEN longest
    ELSE IF seg[i] = 0
         THEN LET cur == [start |-> IF current.len = 0 THEN i ELSE current.start,
                          len |-> current.len + 1]
              IN LongestZeroSpan(seg, i + 1, cur,
                                 IF cur.len > longest.len THEN cur ELSE longest)
         ELSE LongestZeroSpan(seg, i + 1, [start |-> 1, len |-> 0], longest)

IsIpv4Mapped(seg) == /\ \A i \in 1..5 : seg[i] = 0
                     /\ seg[6] = 65535

\* Display for Ipv6Addr
Ipv6ToString(seg) ==
    IF IsIpv4Mapped(seg)
    THEN "::ffff:" \o Ipv4ToString(<<seg[7] \div 256, seg[7] % 256, seg[8] \div 256, seg[8] % 256>>)
    ELSE LET z == LongestZeroSpan(seg, 1, [start |-> 1, len |-> 0], [start |-> 1, len |-> 0])
         IN IF z.len > 1
            THEN FmtSubslice(SubSeq(seg, 1, z.start - 1)) \o "::"
                     \o FmtSubslice(SubSeq(seg, z.start + z.len, Len(seg)))
            ELSE FmtSubslice(seg)

\* addr.to_string()
AddrToString(addr) ==
    IF addr.fam = "V4" THEN Ipv4ToString(addr.parts) ELSE Ipv6ToString(addr.parts)

\* U+FFFD, what to_string_lossy writes for an invalid byte sequence
REPLACEMENT_CHARACTER == "<U+FFFD>"

\* OsStr::to_string_lossy().to_string(): a name is a sequence of chunks, each
\* valid UTF-8 text or an invalid byte sequence
RECURSIVE ToStringLossy(_)
ToStringLossy(name) ==
    IF Len(name) = 0 THEN ""
    ELSE (IF name[1].valid THEN name[1].text ELSE REPLACEMENT_CHARACTER)
             \o ToStringLossy(Tail(name))

(***************************************************************************)
(* netstat.rs: the helpers.                                                *)
(***************************************************************************)
tcp_state_to_string(state) ==
    CASE state = "Closed" -> "CLOSED"
      [] state = "Listen" -> "LISTEN"
      [] state = "SynSent" -> "SYN_SENT"
      [] state = "SynReceived" -> "SYN_RECEIVED"
      [] state = "Established" -> "ESTABLISHED"
      [] state = "FinWait1" -> "FIN_WAIT_1"
      [] state = "FinWait2" -> "FIN_WAIT_2"
      [] state = "CloseWait" -> "CLOSE_WAIT"
      [] state = "Closing" -> "CLOSING"
      [] state = "LastAck" -> "LAST_ACK"
      [] state = "TimeWait" -> "TIME_WAIT"
      [] state = "DeleteTcb" -> "DELETE_TCB"
      [] state = "Unknown" -> "UNKNOWN"

\* a slip: only the IPv4 wildcard is recognised
is_wildcard_v4_only(addr) == addr.fam = "V4" /\ \A i \in 1..4 : addr.parts[i] = 0

is_wildcard(addr) == \A i \in 1..Len(addr.parts) : addr.parts[i] = 0

normalize_address(addr) ==
    IF is_wildcard(addr) THEN None ELSE Some(AddrToString(addr))

\* a slip: an IPv4-mapped IPv6 address is taken for IPv4
is_ipv6_canonical(addr) == addr.fam = "V6" /\ ~IsIpv4Mapped(addr.parts)

is_ipv6(addr) == addr.fam = "V6"

\* a slip: pids.last() for pids.first()
LastPid(pids) == IF Len(pids) = 0 THEN 0 ELSE pids[Len(pids)]

\* pids.first().copied().unwrap_or(0)
FirstPid(pids) == IF Len(pids) = 0 THEN 0 ELSE pids[1]

\* pid_name_map.get(&pid).cloned().unwrap_or_default()
LookupName(map, pid) == IF pid \in DOMAIN map THEN map[pid] ELSE ""

\* the ProtocolSocketInfo::Tcp arm
TcpRecord(tcp, pid, process_name) ==
    [protocol |-> IF is_ipv6(tcp.local_addr) THEN "tcp6" ELSE "tcp",
     local |-> [address |-> normalize_address(tcp.local_addr), port |-> Some(tcp.local_port)],
     remote |-> [address |-> normalize_address(tcp.remote_addr), port |-> Some(tcp.remote_port)],
     state |-> tcp_state_to_string(tcp.state),
     pid |-> pid,
     process_name |-> process_name]

\* a slip: the UDP arm written as a copy of the TCP arm
UdpRecordWithRemote(udp, pid, process_name) ==
    [TcpRecord(udp, pid, process_name) EXCEPT
        !.protocol = IF is_ipv6(udp.local_addr) THEN "udp6" ELSE "udp"]

\* the ProtocolSocketInfo::Udp arm
UdpRecord(udp, pid, process_name) ==
    [protocol |-> IF is_ipv6(udp.local_addr) THEN "udp6" ELSE "udp",
     local |-> [address |-> normalize_address(udp.local_addr), port |-> Some(udp.local_port)],
     remote |-> [address |-> None, port |-> None],
     state |-> "",
     pid |-> pid,
     process_name |-> process_name]

\* one iteration of `for socket in sockets`: the record pushed for `socket`
RecordFor(socket, map) ==
    LET pid == FirstPid(socket.associated_pids)
        process_name == LookupName(map, pid)
    IN IF socket.protocol_socket_info.kind = "Tcp"
       THEN TcpRecord(socket.protocol_socket_info, pid, process_name)
       ELSE UdpRecord(socket.protocol_socket_info, pid, process_name)

\* a slip: a record equal to one already in the list is not pushed
PushUnique(list, rec) ==
    IF \E i \in 1..Len(list) : list[i] = rec THEN list ELSE Append(list, rec)

\* a slip: results.insert(0, ..) for results.push(..)
PushFront(list, rec) == <<rec>> \o list

\* results.push(..)
Push(list, rec) == Append(list, rec)

\* the map with no entry
EmptyMap == [p \in {} |-> ""]

\* a slip: one index shared by all callers, never cleared
SharedPidNameMap(c) ==
    LET held == {d \in DOMAIN pid_name_map : DOMAIN pid_name_map[d] # {}}
    IN IF held = {} THEN EmptyMap ELSE pid_name_map[CHOOSE d \in held : TRUE]

\* HashMap::new()
NewPidNameMap(c) == EmptyMap

\* a slip: the caller's list is reused without being cleared
ReusedResults(c) == results[c]

\* Vec::new()
NewResults(c) == <<>>

\* the loop over sys.processes(): insert every (pid, name), lossily converted
InsertProcesses(map, processes) ==
    [p \in DOMAIN map \cup DOMAIN processes |->
        IF p \in DOMAIN processes THEN ToStringLossy(processes[p]) ELSE map[p]]

\* a slip: a failed enumeration is taken for an empty socket table
EnumFailureAsEmpty(e) == Ok(<<>>)

\* .map_err(|e| format!("Failed to get sockets: {e}"))?
EnumFailure(e) == Err("Failed to get sockets: " \o e)

(***************************************************************************)
(* The inputs: what the operating system can report.                       *)
(***************************************************************************)
Callers == {"poll1", "poll2"}

Unspecified4 == V4(0, 0, 0, 0)
Unspecified6 == V6(<<0, 0, 0, 0, 0, 0, 0, 0>>)

Addrs == {Unspecified4, V4(127, 0, 0, 1),
          Unspecified6, V6(<<0, 0, 0, 0, 0, 0, 0, 1>>),
          V6(<<0, 0, 0, 0, 0, 65535, 0, 0>>), V6(<<65152, 0, 0, 0, 0, 0, 0, 1>>)}

LocalPorts == {53, 8080}
RemotePorts == {54321}

TcpStates == {"Closed", "Listen", "SynSent", "SynReceived", "Established", "FinWait1",
              "FinWait2", "CloseWait", "Closing", "LastAck", "TimeWait", "DeleteTcb",
              "Unknown"}
ObservedStates == {"Listen", "Established"}

SocketPids == {0, 42}
PidLists == UNION {[1..n -> SocketPids] : n \in 0..MaxPids}

\* every descriptor get_sockets_info can return over the sets above; a UDP
\* descriptor carries whatever remote data and state the OS reported with it
SocketInfos ==
    {[protocol_socket_info |-> [kind |-> k, local_addr |-> la, local_port |-> lp,
                                remote_addr |-> ra, remote_port |-> rp, state |-> st],
      associated_pids |-> pids] :
        k \in {"Tcp", "Udp"}, la \in Addrs, lp \in LocalPorts, ra \in Addrs,
        rp \in RemotePorts, st \in ObservedStates, pids \in PidLists}

Text(t) == <<[valid |-> TRUE, text |-> t]>>
InvalidBytes == <<[valid |-> FALSE, text |-> ""]>>

NamesOf(pid) == IF pid = 0 THEN {Text("kernel_task")}
                ELSE {Text("server"), Text("srv") \o InvalidBytes}

ProcTables ==
    UNION {{f \in [D -> UNION {NamesOf(p) : p \in D}] : \A p \in D : f[p] \in NamesOf(p)} :
              D \in SUBSET SocketPids}

\* the two kinds of socket of the running system: a connection of a server,
\* shared with its forked worker, and an ownerless UDP socket bound to the wildcard
ServerSocket ==
    [protocol_socket_info |-> [kind |-> "Tcp", local_addr |-> V4(127, 0, 0, 1),
                               local_port |-> 8080, remote_addr |-> V4(10, 0, 0, 5),
                               remote_port |-> 54321, state |-> "Established"],
     associated_pids |-> <<42, 43>>]
DnsSocket ==
    [protocol_socket_info |-> [kind |-> "Udp", local_addr |-> Unspecified4,
                               local_port |-> 53, remote_addr |-> Unspecified4,
                               remote_port |-> 0, state |-> "Unknown"],
     associated_pids |-> <<>>]
OpenableSockets == {ServerSocket, DnsSocket}

\* the process that starts and exits while the program runs
StartableProcs == {[pid |-> 42, name |-> Text("server")]}

EnumErrors == {"permission denied"}

\* the orders in which the enumerator may return the table
Orders(table) ==
    {[i \in 1..Len(table) |-> table[p[i]]] :
        p \in {q \in [1..Len(table) -> 1..Len(table)] :
                  \A i, j \in 1..Len(table) : q[i] = q[j] => i = j}}

NoHistory == [sockets |-> <<>>, sys |-> <<>>, ret |-> NotReturned]

(***************************************************************************)
(* The operating system.                                                   *)
(***************************************************************************)
\* a TCP connection is unique in the table; UDP sockets bound alike (SO_REUSEPORT)
\* are reported as equal descriptors
SocketOpens(s) ==
    /\ Len(osSockets) < MaxSockets
    /\ s.protocol_socket_info.kind = "Tcp" => \A i \in 1..Len(osSockets) : osSockets[i] # s
    /\ osSockets' = Append(osSockets, s)
    /\ UNCHANGED <<osProcs, pc, sockets, sys, pid_name_map, results, pos, ret, prev>>

SocketCloses(i) ==
    /\ i \in 1..Len(osSockets)
    /\ osSockets' = SubSeq(osSockets, 1, i - 1) \o SubSeq(osSockets, i + 1, Len(osSockets))
    /\ UNCHANGED <<osProcs, pc, sockets, sys, pid_name_map, results, pos, ret, prev>>

ProcessStarts(p) ==
    /\ p.pid \notin DOMAIN osProcs
    /\ osProcs' = [q \in DOMAIN osProcs \cup {p.pid} |->
                      IF q = p.pid THEN p.name ELSE osProcs[q]]
    /\ UNCHANGED <<osSockets, pc, sockets, sys, pid_name_map, results, pos, ret, prev>>

ProcessExits(pid) ==
    /\ pid \in DOMAIN osProcs
    /\ osProcs' = [q \in DOMAIN osProcs \ {pid} |-> osProcs[q]]
    /\ UNCHANGED <<osSockets, pc, sockets, sys, pid_name_map, results, pos, ret, prev>>

(***************************************************************************)
(* fetch_process_info_list, one caller's steps.                            *)
(***************************************************************************)
\* get_sockets_info(..) returns Ok: the table in some order
GetSockets(c) ==
    /\ pc[c] = "idle"
    /\ \E order \in Orders(osSockets) :
          sockets' = [sockets EXCEPT ![c] = order]
    /\ pc' = [pc EXCEPT ![c] = "refresh"]
    /\ UNCHANGED <<osSockets, osProcs, sys, pid_name_map, results, pos, ret, prev>>

\* get_sockets_info(..) returns Err: the function returns at once
GetSocketsFails(c) ==
    /\ pc[c] = "idle"
    /\ \E e \in EnumErrors :
          ret' = [ret EXCEPT ![c] = EnumFailure(e)]
    /\ pc' = [pc EXCEPT ![c] = "failed"]
    /\ UNCHANGED <<osSockets, osProcs, sockets, sys, pid_name_map, results, pos, prev>>

\* System::new(), refresh_processes, the pid_name_map loop, Vec::new()
RefreshProcesses(c) ==
    /\ pc[c] = "refresh"
    /\ sys' = [sys EXCEPT ![c] = osProcs]
    /\ pid_name_map' = [pid_name_map EXCEPT ![c] = InsertProcesses(NewPidNameMap(c), osProcs)]
    /\ results' = [results EXCEPT ![c] = NewResults(c)]
    /\ pos' = [pos EXCEPT ![c] = 1]
    /\ pc' = [pc EXCEPT ![c] = "loop"]
    /\ UNCHANGED <<osSockets, osProcs, sockets, ret, prev>>

\* one iteration of `for socket in sockets`
LoopStep(c) ==
    /\ pc[c] = "loop"
    /\ pos[c] <= Len(sockets[c])
    /\ results' = [results EXCEPT ![c] = Push(@, RecordFor(sockets[c][pos[c]], pid_name_map[c]))]
    /\ pos' = [pos EXCEPT ![c] = @ + 1]
    /\ UNCHANGED <<osSockets, osProcs, pc, sockets, sys, pid_name_map, ret, prev>>

\* Ok(results)
Return(c) ==
    /\ pc[c] = "loop"
    /\ pos[c] > Len(sockets[c])
    /\ ret' = [ret EXCEPT ![c] = Ok(results[c])]
    /\ pc' = [pc EXCEPT ![c] = "done"]
    /\ UNCHANGED <<osSockets, osProcs, sockets, sys, pid_name_map, results, pos, prev>>

\* the user interface polls again: the command is invoked once more
CallAgain(c) ==
    /\ pc[c] \in {"done", "failed"}
    /\ prev' = [prev EXCEPT ![c] = IF pc[c] = "done"
                                   THEN [sockets |-> sockets[c], sys |-> sys[c], ret |-> ret[c]]
                                   ELSE [NoHistory EXCEPT !.ret = ret[c]]]
    /\ ret' = [ret EXCEPT ![c] = NotReturned]
    /\ pc' = [pc EXCEPT ![c] = "idle"]
    /\ UNCHANGED <<osSockets, osProcs, sockets, sys, pid_name_map, results, pos>>

Build(c) ==
    \/ GetSockets(c)
    \/ GetSocketsFails(c)
    \/ RefreshProcesses(c)
    \/ LoopStep(c)
    \/ Return(c)

Locals ==
    /\ pc = [c \in Callers |-> "idle"]
    /\ sockets = [c \in Callers |-> <<>>]
    /\ sys = [c \in Callers |-> <<>>]
    /\ pid_name_map = [c \in Callers |-> EmptyMap]
    /\ results = [c \in Callers |-> <<>>]
    /\ pos = [c \in Callers |-> 1]
    /\ ret = [c \in Callers |-> NotReturned]
    /\ prev = [c \in Callers |-> NoHistory]

(***************************************************************************)
(* Spec: two callers, each invoking the command once, over an operating    *)
(* system whose tables change between any two steps.                       *)
(***************************************************************************)
Init ==
    /\ osSockets = <<>>
    /\ osProcs = <<>>
    /\ Locals

OsStep ==
    \/ \E s \in OpenableSockets : SocketOpens(s)
    \/ \E i \in 1..MaxSockets : SocketCloses(i)
    \/ \E p \in StartableProcs : ProcessStarts(p)
    \/ \E pid \in SocketPids : ProcessExits(pid)

Next ==
    \/ OsStep
    \/ \E c \in Callers : Build(c)

Spec == Init /\ [][Next]_vars

(***************************************************************************)
(* SpecSeq: one caller polling again and again over the changing system.   *)
(***************************************************************************)
NextSeq ==
    \/ OsStep
    \/ Build("poll1")
    \/ CallAgain("poll1")

SpecSeq == Init /\ [][NextSeq]_vars

(***************************************************************************)
(* SpecRecord: one build over a table of one socket, the socket being any  *)
(* descriptor and the process table any table; a process may exit between  *)
(* the socket query and the process query.                                 *)
(***************************************************************************)
InitRecord ==
    /\ \E s \in SocketInfos : osSockets = <<s>>
    /\ osProcs \in ProcTables
    /\ Locals

NextRecord ==
    \/ \E pid \in SocketPids : ProcessExits(pid)
    \/ Build("poll1")

SpecRecord == InitRecord /\ [][NextRecord]_vars

(***************************************************************************)
(* What the claims speak of.                                               *)
(***************************************************************************)
\* the positions of the records caller c has built from its sockets so far
Built(c) == IF pc[c] \in {"loop", "done"} THEN 1..Len(results[c]) ELSE {}

\* the index a call builds from a process snapshot and nothing else
IndexOf(processes) == InsertProcesses(EmptyMap, processes)

\* what a build returns running alone on the two snapshots
Alone(socks, processes) ==
    [i \in 1..Len(socks) |-> RecordFor(socks[i], IndexOf(processes))]

\* how many times r occurs in list
Count(list, r) == Cardinality({i \in 1..Len(list) : list[i] = r})

\* equal collections, order ignored
SameCollection(a, b) ==
    /\ Len(a) = Len(b)
    /\ \A i \in 1..Len(a) : Count(a, a[i]) = Count(b, a[i])

\* the textual forms of the addresses of Addrs, written out
KnownText(addr) ==
    CASE addr = V4(127, 0, 0, 1) -> "127.0.0.1"
      [] addr = V6(<<0, 0, 0, 0, 0, 0, 0, 1>>) -> "::1"
      [] addr = V6(<<0, 0, 0, 0, 0, 65535, 0, 0>>) -> "::ffff:0.0.0.0"
      [] addr = V6(<<65152, 0, 0, 0, 0, 0, 0, 1>>) -> "fe80::1"
      [] addr = V4(10, 0, 0, 5) -> "10.0.0.5"
      [] addr = Unspecified4 -> "0.0.0.0"
      [] addr = Unspecified6 -> "::"

\* an address field as the claim wants it for the underlying address
AddressFieldRight(field, addr) ==
    IF addr \in {Unspecified4, Unspecified6}
    THEN field = None
    ELSE /\ field # None
         /\ field = Some(KnownText(addr))
         /\ field[1] \notin {"", "0.0.0.0", "::"}

(***************************************************************************)
(* C1.  When the socket enumeration fails, the command returns the error   *)
(* as its whole result: the result is never Ok (neither a partial nor an   *)
(* empty list), it carries the enumerator's message, and nothing was built *)
(* before it was reported: no process snapshot, no index, no record.       *)
(***************************************************************************)
C1_EnumerationFailureIsTheWholeResult ==
    \A c \in Callers :
        pc[c] = "failed" =>
            /\ ret[c].tag = "Err"
            /\ \E e \in EnumErrors : ret[c].val = "Failed to get sockets: " \o e
            /\ results[c] = <<>>
            /\ pid_name_map[c] = EmptyMap
            /\ sys[c] = <<>>

C1_Witness ==
    \E c \in Callers : pc[c] = "failed" /\ Len(osSockets) = 2 /\ DOMAIN osProcs # {}

(***************************************************************************)
(* C2.  As claimed: every record built from a socket whose associated_pids *)
(* is empty has pid 0 and process_name "", whatever the process snapshot.  *)
(* The code looks pid 0 up like any other pid, so a snapshot holding a     *)
(* process 0 gives the record that process's name.                         *)
(***************************************************************************)
C2_NoOwnerMeansNoName ==
    \A c \in Callers : \A i \in Built(c) :
        sockets[c][i].associated_pids = <<>> =>
            /\ results[c][i].pid = 0
            /\ results[c][i].process_name = ""

(***************************************************************************)
(* C3.  Every record built from a socket whose associated_pids is not      *)
(* empty has the first of them as its pid; when the process snapshot of    *)
(* the same call has no entry for that pid the record is still built, with *)
(* process_name "", and the build returns Ok with a record for every       *)
(* socket.                                                                 *)
(***************************************************************************)
C3_FirstPidAndSilentMiss ==
    \A c \in Callers :
        /\ \A i \in Built(c) :
              LET pids == sockets[c][i].associated_pids
              IN pids # <<>> =>
                    /\ results[c][i].pid = pids[1]
                    /\ pids[1] \notin DOMAIN sys[c] => results[c][i].process_name = ""
        /\ pc[c] = "loop" => Len(results[c]) = pos[c] - 1
        /\ pc[c] = "done" => /\ ret[c].tag = "Ok"
                             /\ Len(ret[c].val) = Len(sockets[c])
                             /\ ret[c].val = results[c]

\* the owner 42 exited before the process query; the second owner, 0, is running
C3_Witness ==
    \E c \in Callers :
        /\ pc[c] = "done"
        /\ sockets[c][1].associated_pids = <<42, 0>>
        /\ DOMAIN sys[c] = {0}
        /\ ret[c].val[1].pid = 42
        /\ ret[c].val[1].process_name = ""

(***************************************************************************)
(* C4.  Every record built from a UDP socket has remote.address and        *)
(* remote.port absent and state "", whatever the descriptor holds.         *)
(***************************************************************************)
C4_UdpHasNoRemoteNoState ==
    \A c \in Callers : \A i \in Built(c) :
        sockets[c][i].protocol_socket_info.kind = "Udp" =>
            /\ results[c][i].remote.address = None
            /\ results[c][i].remote.port = None
            /\ results[c][i].state = ""

C4_Witness ==
    \E c \in Callers : \E i \in Built(c) :
        LET udp == sockets[c][i].protocol_socket_info
        IN /\ udp.kind = "Udp"
           /\ udp.remote_addr = V4(127, 0, 0, 1)
           /\ udp.state = "Established"
           /\ udp.local_addr = V6(<<0, 0, 0, 0, 0, 0, 0, 1>>)
           /\ sockets[c][i].associated_pids = <<42>>
           /\ results[c][i].remote = [address |-> None, port |-> None]

(***************************************************************************)
(* C5.  The protocol label of every record is the transport's name with a  *)
(* "6" exactly when the socket's local address is IPv6; the remote address *)
(* has no part in it: the same socket with any other remote address gets   *)
(* the same label.                                                         *)
(***************************************************************************)
C5_LabelFollowsLocalFamily ==
    \A c \in Callers : \A i \in Built(c) :
        LET info == sockets[c][i].protocol_socket_info
            label == results[c][i].protocol
        IN /\ label \in {"tcp6", "udp6"} <=> info.local_addr.fam = "V6"
           /\ label \in {"tcp", "udp"} <=> info.local_addr.fam = "V4"
           /\ label \in {"tcp", "tcp6"} <=> info.kind = "Tcp"
           /\ label \in {"udp", "udp6"} <=> info.kind = "Udp"
           /\ \A ra \in Addrs :
                 RecordFor([sockets[c][i] EXCEPT !.protocol_socket_info.remote_addr = ra],
                           pid_name_map[c]).protocol = label

\* a TCP socket whose local address is IPv4 and whose remote address is IPv6
C5_Witness ==
    \E c \in Callers : \E i \in Built(c) :
        LET info == sockets[c][i].protocol_socket_info
        IN /\ info.kind = "Tcp"
           /\ info.local_addr.fam = "V4"
           /\ info.remote_addr.fam = "V6"
           /\ results[c][i].protocol = "tcp"

(***************************************************************************)
(* C6.  The local address field of every record, and the remote address    *)
(* field of every TCP record, is absent exactly when the underlying        *)
(* address is 0.0.0.0 or ::, and otherwise holds the address's textual     *)
(* form, which is never "", "0.0.0.0" or "::".                             *)
(***************************************************************************)
C6_WildcardIsAbsent ==
    \A c \in Callers : \A i \in Built(c) :
        LET info == sockets[c][i].protocol_socket_info
        IN /\ AddressFieldRight(results[c][i].local.address, info.local_addr)
           /\ info.kind = "Tcp" =>
                 AddressFieldRight(results[c][i].remote.address, info.remote_addr)

\* a TCP socket listening on :: with a concrete IPv4-mapped remote address
C6_Witness ==
    \E c \in Callers : \E i \in Built(c) :
        LET info == sockets[c][i].protocol_socket_info
        IN /\ info.kind = "Tcp"
           /\ info.local_addr = Unspecified6
           /\ info.remote_addr = V6(<<0, 0, 0, 0, 0, 65535, 0, 0>>)
           /\ results[c][i].local.address = None
           /\ results[c][i].remote.address = Some("::ffff:0.0.0.0")

(***************************************************************************)
(* C7.  As claimed: no two records of a returned list are equal.           *)
(***************************************************************************)
C7_NoTwoRecordsEqual ==
    \A c \in Callers :
        pc[c] = "done" =>
            \A i, j \in 1..Len(ret[c].val) : i # j => ret[c].val[i] # ret[c].val[j]

(***************************************************************************)
(* C7, amended.  The build removes no duplicate: every record occurs in    *)
(* the returned list as many times as there are descriptors mapping to it, *)
(* so two records are equal exactly when two descriptors map to the same   *)
(* record.                                                                 *)
(***************************************************************************)
C7_OneCopyPerDescriptor ==
    \A c \in Callers :
        pc[c] = "done" =>
            /\ \A i \in 1..Len(sockets[c]) :
                  LET r == RecordFor(sockets[c][i], IndexOf(sys[c]))
                  IN Count(ret[c].val, r) = Count(Alone(sockets[c], sys[c]), r)
            /\ \A i \in 1..Len(ret[c].val) :
                  Count(ret[c].val, ret[c].val[i]) = Count(Alone(sockets[c], sys[c]), ret[c].val[i])

\* two UDP sockets bound alike: the list holds the record twice
C7_Witness ==
    \E c \in Callers :
        /\ pc[c] = "done"
        /\ sockets[c] = <<DnsSocket, DnsSocket>>
        /\ Len(ret[c].val) = 2
        /\ ret[c].val[1] = ret[c].val[2]

(***************************************************************************)
(* C8.  Two builds of one caller, one after the other, that read the same  *)
(* socket table (in whatever order the enumerator gave it) and the same    *)
(* process table return the same collection of records, order ignored.     *)
(***************************************************************************)
C8_SameSnapshotsSameRecords ==
    \A c \in Callers :
        (/\ pc[c] = "done"
         /\ prev[c].ret.tag = "Ok"
         /\ SameCollection(prev[c].sockets, sockets[c])
         /\ prev[c].sys = sys[c])
            => /\ ret[c].tag = "Ok"
               /\ SameCollection(prev[c].ret.val, ret[c].val)

\* the second build got the two sockets in the other order
C8_Witness ==
    \E c \in Callers :
        /\ pc[c] = "done"
        /\ prev[c].ret.tag = "Ok"
        /\ prev[c].sockets = <<ServerSocket, DnsSocket>>
        /\ sockets[c] = <<DnsSocket, ServerSocket>>
        /\ prev[c].sys = sys[c]
        /\ 42 \in DOMAIN sys[c]
        /\ ret[c].val # prev[c].ret.val

(***************************************************************************)
(* C9.  With the steps of two builds interleaved in any order, and the     *)
(* tables changing meanwhile, what each build has built, and what it       *)
(* returns, is what it would build alone from the socket list and the      *)
(* process snapshot it read itself.                                        *)
(***************************************************************************)
C9_BuildsDoNotInterfere ==
    \A c \in Callers :
        /\ pc[c] = "loop" =>
              results[c] = SubSeq(Alone(sockets[c], sys[c]), 1, pos[c] - 1)
        /\ pc[c] = "done" =>
              /\ ret[c].tag = "Ok"
              /\ ret[c].val = Alone(sockets[c], sys[c])

\* both builds are in their loops, on different snapshots of both tables
C9_Witness ==
    /\ \A c \in Callers : pc[c] = "loop" /\ pos[c] = 2 /\ Len(sockets[c]) = 2
    /\ sys["poll1"] # sys["poll2"]
    /\ sockets["poll1"] # sockets["poll2"]
    /\ results["poll1"] # results["poll2"]

(***************************************************************************)
(* C10.  A returned list has one record per descriptor the enumerator      *)
(* returned, in the enumerator's order: the same length, the i-th record   *)
(* built from the i-th descriptor (one record also for a socket with       *)
(* several owners), and Ok of the empty list when there is no socket.      *)
(***************************************************************************)
C10_OneRecordPerSocketInOrder ==
    \A c \in Callers :
        pc[c] = "done" =>
            /\ ret[c].tag = "Ok"
            /\ Len(ret[c].val) = Len(sockets[c])
            /\ \A i \in 1..Len(sockets[c]) :
                  ret[c].val[i] = RecordFor(sockets[c][i], pid_name_map[c])
            /\ sockets[c] = <<>> => ret[c] = Ok(<<>>)

\* the enumerator returned the table in the other order; one socket has two owners
C10_Witness ==
    \E c \in Callers :
        /\ pc[c] = "done"
        /\ osSockets = <<ServerSocket, DnsSocket>>
        /\ sockets[c] = <<DnsSocket, ServerSocket>>
        /\ Len(sockets[c][2].associated_pids) = 2
        /\ ret[c].val[1].protocol = "udp"
        /\ ret[c].val[2].protocol = "tcp"

====
